---- MODULE Spec2Model ----
(***************************************************************************)
(* Model of the 2D-to-VR180 conversion pipeline of                         *)
(* app/services/video_conversion.py (class VideoProcessingService).        *)
(*                                                                         *)
(* One behaviour is the life of one service instance: the module-level     *)
(* dependency probe, accesses of the lazily loading midas_model property,  *)
(* and one invocation of process_video, stepped at the granularity of the  *)
(* loop iterations of its stages.  An exception raised inside the `with`   *)
(* block of process_video unwinds in the same step: the temporary          *)
(* directory is left and the `except Exception` handler builds the result. *)
(*                                                                         *)
(* Further specifications over the same variables: FnSpec applies the pure *)
(* helpers (file names, disparity, stereo pair, normalisation, encoder     *)
(* parameters, AuthMiddleware.dispatch, routing) to bounded inputs;        *)
(* ConcSpec interleaves two process_video invocations on the shared        *)
(* instance; WebSpec interleaves two requests to the video endpoints of    *)
(* app/routes/videos.py.                                                   *)
(***************************************************************************)
EXTENDS Integers, Sequences, FiniteSets, TLC

\* Largest number of frames a modelled source decodes to; the frame count the
\* container reports ranges over 0 .. MaxFrames + 1 so that it can be smaller
\* than, equal to, or larger than the number of frames actually decoded.
MaxFrames == 3

\* progress = (frame_idx / frame_count) * 20
ExtractionShare == 20
\* progress = 20 + (idx / total_frames) * 60
ProcessingShare == 60
\* await progress_callback(100, "Video generation completed")
EncodingDone == 100

VARIABLES
    depsAvailable,    \* DEPENDENCIES_AVAILABLE
    midasModel,       \* self._midas_model: "none" | "loaded"
    midasTransforms,  \* self._midas_transforms: "unset" (no such attribute) | "loaded"
    pc,               \* position of the process_video invocation
    source,           \* the input video: frames it decodes to, frame count it reports
    callback,         \* whether a progress_callback was supplied
    frameIdx,         \* frame_idx of _extract_frames
    capOpen,          \* the cv2.VideoCapture handle is open
    tempDir,          \* the TemporaryDirectory: "none" | "exists" | "removed"
    files,            \* files inside the temporary directory
    procIdx,          \* idx of the loop of _process_frames_for_vr180
    outputFile,       \* file at output_path: "absent" | "partial" | "complete"
    progress,         \* percentages handed to progress_callback, in call order
    invoked,          \* stages invoked so far, in order
    completed,        \* stages that returned normally, in order
    exc,              \* the exception that left the `with` block, if any
    estimateCalls,    \* frame indices _estimate_depth was called for, in order
    metadata,         \* keys of the dict returned by _get_video_metadata
    result,           \* the dict process_video returned
    call,             \* one application of a pure helper: its inputs and output
    inv,              \* concurrent process_video invocations on the shared instance
    tmpDirs,          \* temporary directories that exist on the disk
    tmpFiles,         \* files inside temporary directories
    videos,           \* Firestore video records, by video id
    jobs,             \* Firestore job records
    tasks,            \* Cloud Tasks conversion tasks enqueued
    gcsFiles,         \* video ids whose files are stored in the bucket
    urls,             \* download and preview URLs issued
    req               \* requests to the video endpoints, by request id

vars == <<depsAvailable, midasModel, midasTransforms, pc, source, callback,
          frameIdx, capOpen, tempDir, files, procIdx, outputFile, progress,
          invoked, completed, exc, estimateCalls, metadata, result, call,
          inv, tmpDirs, tmpFiles, videos, jobs, tasks, gcsFiles, urls, req>>

pipeline == <<depsAvailable, midasModel, midasTransforms, pc, source, callback,
              frameIdx, capOpen, tempDir, files, procIdx, outputFile, progress,
              invoked, completed, exc, estimateCalls, metadata, result>>

conc == <<inv, tmpDirs, tmpFiles>>
web == <<videos, jobs, tasks, gcsFiles, urls, req>>

service == <<depsAvailable, midasModel, midasTransforms>>
inputs == <<source, callback>>

----------------------------------------------------------------------------
\* Values

StageOrder == <<"extract", "process", "encode", "thumbnail", "metadata">>

NoExc == [stage |-> "none", msg |-> ""]

\* A path that names no file.
NoPath == [dir |-> "none", idx |-> 0]

NoResult == [returned |-> FALSE, success |-> FALSE, error |-> "",
             output_path |-> "", thumbnail_path |-> NoPath, metadata |-> {}]

NoMetadata == {"unset"}

\* No helper has been applied.
NoCall == [fn |-> "none"]

\* The process_video invocations that run concurrently on the module-level
\* video_processing_service.
Invocations == {1, 2}

\* An invocation that has not been started: no workspace, nothing touched.
IdleInvocation ==
    [pc |-> "idle", dir |-> "none", frames |-> 0, idx |-> 0,
     reads |-> {}, writes |-> {}, removed |-> {}]

\* The users, the video ids and the requests of the video endpoints.
Users == {"alice", "bob"}
VideoIds == {"v1", "v2", "v3"}
Requests == {1, 2}

\* A video id without a record: get_video_by_id returns None.
NoVideo == [exists |-> FALSE, user_id |-> "", status |-> "", converted_url |-> FALSE]

\* The records in the store when the requests arrive: v1 uploaded by alice
\* and not yet converted, v2 converted for bob, v3 unknown.
StoredVideos ==
    [v \in VideoIds |->
        CASE v = "v1" -> [exists |-> TRUE, user_id |-> "alice",
                          status |-> "uploaded", converted_url |-> FALSE]
          [] v = "v2" -> [exists |-> TRUE, user_id |-> "bob",
                          status |-> "completed", converted_url |-> TRUE]
          [] OTHER -> NoVideo]

\* No request has arrived under this id.
NoRequest == [pc |-> "none"]

\* os.path.join(frames_dir, f"frame_{frame_idx:06d}.jpg")
FrameFile(i) == [dir |-> "frames", idx |-> i]
\* os.path.join(output_dir, frame_file)
ProcessedFile(i) == [dir |-> "processed_frames", idx |-> i]
\* os.path.join(temp_dir, "thumbnail.jpg")
ThumbnailFile == [dir |-> "", idx |-> 0]

\* sorted([f for f in os.listdir(d) if f.endswith('.jpg')]), as the indices
InDir(d) == {f.idx : f \in {g \in files : g.dir = d}}

\* A percentage is the rational num / den with den > 0.
Pct(stage, num, den) == [stage |-> stage, num |-> num, den |-> den]

\* progress = (frame_idx / frame_count) * 20
ExtractProgress(idx, count) == Pct("extract", idx * ExtractionShare, count)
\* progress = 20 + (idx / total_frames) * 60
ProcessProgress(idx, total) ==
    Pct("process", ExtractionShare * total + idx * ProcessingShare, total)
\* progress_callback(100, ...)
EncodeProgress == Pct("encode", EncodingDone, 1)

----------------------------------------------------------------------------
\* The service object

Init ==
    /\ depsAvailable \in BOOLEAN
    /\ midasModel = "none"
    /\ midasTransforms = "unset"
    /\ pc = "idle"
    /\ source = [frames |-> 0, frame_count |-> 0]
    /\ callback = FALSE
    /\ frameIdx = 0
    /\ capOpen = FALSE
    /\ tempDir = "none"
    /\ files = {}
    /\ procIdx = 0
    /\ outputFile = "absent"
    /\ progress = <<>>
    /\ invoked = <<>>
    /\ completed = <<>>
    /\ exc = NoExc
    /\ estimateCalls = <<>>
    /\ metadata = NoMetadata
    /\ result = NoResult
    /\ call = NoCall
    /\ inv = [i \in Invocations |-> IdleInvocation]
    /\ tmpDirs = {}
    /\ tmpFiles = {}
    /\ videos = StoredVideos
    /\ jobs = {}
    /\ tasks = {}
    /\ gcsFiles = {v \in VideoIds : videos[v].exists}
    /\ urls = {}
    /\ req = [r \in Requests |-> NoRequest]

\* The midas_model property.  outcome is what torch.hub.load does when the
\* model is not yet loaded: "ok", "model_fails" (the first load raises),
\* "transforms_fail" (the model is stored, then the transforms load raises).
MidasModelProperty(outcome) ==
    IF midasModel # "none"
    THEN [model |-> midasModel, transforms |-> midasTransforms, raised |-> FALSE]
    ELSE CASE outcome = "ok" ->
                [model |-> "loaded", transforms |-> "loaded", raised |-> FALSE]
           [] outcome = "model_fails" ->
                [model |-> "none", transforms |-> midasTransforms, raised |-> TRUE]
           [] OTHER ->
                [model |-> "loaded", transforms |-> midasTransforms, raised |-> TRUE]

\* A caller reads service.midas_model while no conversion is running.
AccessMidasModel ==
    /\ pc = "idle"
    /\ depsAvailable
    /\ \E outcome \in {"ok", "model_fails", "transforms_fail"} :
         LET r == MidasModelProperty(outcome) IN
         /\ midasModel' = r.model
         /\ midasTransforms' = r.transforms
    /\ UNCHANGED <<call, conc, web, depsAvailable, pc, source, callback, frameIdx, capOpen,
                   tempDir, files, procIdx, outputFile, progress, invoked,
                   completed, exc, estimateCalls, metadata, result>>

----------------------------------------------------------------------------
\* process_video: leaving the `with` block and the except handler

\* Variant: the directory is removed by a statement at the end of the block,
\* which an exception skips.
TemporaryDirectoryExitOnReturnOnly(raised) ==
    IF raised THEN [dir |-> tempDir, files |-> files]
              ELSE [dir |-> "removed", files |-> {}]

\* TemporaryDirectory.__exit__: the directory and its contents are removed,
\* whether the block is left by return or by an exception.
TemporaryDirectoryExit(raised) == [dir |-> "removed", files |-> {}]

\* return {'success': False, 'error': str(e)}
FailureResult(msg) ==
    [returned |-> TRUE, success |-> FALSE, error |-> msg,
     output_path |-> "", thumbnail_path |-> NoPath, metadata |-> {}]

\* return {'success': True, 'output_path': ..., 'thumbnail_path': ..., 'metadata': ...}
SuccessResult(md) ==
    [returned |-> TRUE, success |-> TRUE, error |-> "",
     output_path |-> "output_path", thumbnail_path |-> ThumbnailFile,
     metadata |-> md]

\* The keys of the dict process_video returns.
ResultKeys(r) ==
    IF r.success THEN {"success", "output_path", "thumbnail_path", "metadata"}
                 ELSE {"success", "error"}

\* An exception raised by a stage: it propagates out of the `with` block and
\* is caught by `except Exception`.
Raise(stage, msg) ==
    LET ws == TemporaryDirectoryExit(TRUE) IN
    /\ tempDir' = ws.dir
    /\ files' = ws.files
    /\ exc' = [stage |-> stage, msg |-> msg]
    /\ result' = FailureResult(msg)
    /\ pc' = "done"

\* if not DEPENDENCIES_AVAILABLE: return {'success': False, ...}
ProcessVideoUnavailable ==
    /\ pc = "idle"
    /\ ~depsAvailable
    /\ result' = FailureResult("Video processing dependencies not available")
    /\ pc' = "done"
    /\ \E cb \in BOOLEAN : callback' = cb
    /\ \E n \in 0 .. MaxFrames, c \in 0 .. MaxFrames + 1 :
         source' = [frames |-> n, frame_count |-> c]
    /\ UNCHANGED <<call, conc, web, service, frameIdx, capOpen, tempDir, files, procIdx,
                   outputFile, progress, invoked, completed, exc,
                   estimateCalls, metadata>>

\* The workspace is created and _extract_frames opens the capture.
ProcessVideoStart ==
    /\ pc = "idle"
    /\ depsAvailable
    /\ \E cb \in BOOLEAN : callback' = cb
    /\ \E n \in 0 .. MaxFrames, c \in 0 .. MaxFrames + 1 :
         source' = [frames |-> n, frame_count |-> c]
    /\ tempDir' = "exists"
    /\ files' = {}
    /\ invoked' = <<"extract">>
    /\ capOpen' = TRUE
    /\ frameIdx' = 0
    /\ pc' = "extract"
    /\ UNCHANGED <<call, conc, web, service, procIdx, outputFile, progress, completed, exc,
                   estimateCalls, metadata, result>>

----------------------------------------------------------------------------
\* _extract_frames

\* Variant: a failed write restarts the extraction stage.
ExtractWriteFailsRetry ==
    /\ pc = "extract"
    /\ frameIdx < source.frames
    /\ Len(invoked) < 3
    /\ invoked' = Append(invoked, "extract")
    /\ frameIdx' = 0
    /\ files' = {}
    /\ UNCHANGED <<call, conc, web, service, inputs, pc, capOpen, tempDir, procIdx, outputFile,
                   progress, completed, exc, estimateCalls, metadata, result>>

\* cv2.imwrite raises for the frame just read.
ExtractWriteFails ==
    /\ pc = "extract"
    /\ frameIdx < source.frames
    /\ Raise("extract", "frame write failed")
    /\ UNCHANGED <<call, conc, web, service, inputs, frameIdx, capOpen, procIdx, outputFile,
                   progress, invoked, completed, estimateCalls, metadata>>

\* One iteration of the read loop that ends without an exception.
ExtractFrame ==
    /\ pc = "extract"
    /\ frameIdx < source.frames
    /\ callback => source.frame_count # 0
    /\ files' = files \cup {FrameFile(frameIdx)}
    /\ frameIdx' = frameIdx + 1
    /\ progress' = IF callback
                   THEN Append(progress, ExtractProgress(frameIdx + 1, source.frame_count))
                   ELSE progress
    /\ UNCHANGED <<call, conc, web, service, inputs, pc, capOpen, tempDir, procIdx, outputFile,
                   invoked, completed, exc, estimateCalls, metadata, result>>

\* frame_idx / frame_count with a container that reports 0 frames.
ExtractDivisionByZero ==
    /\ pc = "extract"
    /\ frameIdx < source.frames
    /\ callback
    /\ source.frame_count = 0
    /\ frameIdx' = frameIdx + 1
    /\ Raise("extract", "division by zero")
    /\ UNCHANGED <<call, conc, web, service, inputs, capOpen, procIdx, outputFile, progress,
                   invoked, completed, estimateCalls, metadata>>

\* The progress callback raises.
ExtractCallbackRaises ==
    /\ pc = "extract"
    /\ frameIdx < source.frames
    /\ callback
    /\ source.frame_count # 0
    /\ frameIdx' = frameIdx + 1
    /\ progress' = Append(progress, ExtractProgress(frameIdx + 1, source.frame_count))
    /\ Raise("extract", "callback raised")
    /\ UNCHANGED <<call, conc, web, service, inputs, capOpen, procIdx, outputFile, invoked,
                   completed, estimateCalls, metadata>>

\* cap.read() returns no frame: the loop ends, the capture is released, and
\* process_video goes on to _process_frames_for_vr180.
ExtractEnd ==
    /\ pc = "extract"
    /\ frameIdx = source.frames
    /\ capOpen' = FALSE
    /\ completed' = Append(completed, "extract")
    /\ invoked' = Append(invoked, "process")
    /\ procIdx' = 0
    /\ pc' = "process"
    /\ UNCHANGED <<call, conc, web, service, inputs, frameIdx, tempDir, files, outputFile,
                   progress, exc, estimateCalls, metadata, result>>

----------------------------------------------------------------------------
\* _process_frames_for_vr180 and _estimate_depth

\* The elements of a finite set of integers in ascending order.
SortedIdx(S) ==
    CHOOSE s \in [1 .. Cardinality(S) -> S] :
        \A i, j \in 1 .. Cardinality(S) : i < j => s[i] < s[j]

\* frame_files and total_frames
FrameFiles == SortedIdx(InDir("frames"))
TotalFrames == Cardinality(InDir("frames"))

\* self._midas_transforms(frame) on a service that never loaded the model:
\* the attribute does not exist.
ProcessTransformsMissing ==
    /\ pc = "process"
    /\ procIdx < TotalFrames
    /\ midasTransforms = "unset"
    /\ estimateCalls' = Append(estimateCalls, FrameFiles[procIdx + 1])
    /\ Raise("process", "depth: no attribute _midas_transforms")
    /\ UNCHANGED <<call, conc, web, service, inputs, frameIdx, capOpen, procIdx, outputFile,
                   progress, invoked, completed, metadata>>

\* Variant: a frame whose depth estimation raises is logged and skipped.
ProcessDepthFailsSkip ==
    /\ pc = "process"
    /\ procIdx < TotalFrames
    /\ midasTransforms = "loaded"
    /\ estimateCalls' = Append(estimateCalls, FrameFiles[procIdx + 1])
    /\ exc' = [stage |-> "process", msg |-> "depth: inference failed"]
    /\ procIdx' = procIdx + 1
    /\ UNCHANGED <<call, conc, web, service, inputs, pc, frameIdx, capOpen, tempDir, files,
                   outputFile, progress, invoked, completed, metadata, result>>

\* The model load or the inference raises inside _estimate_depth.
ProcessDepthFails ==
    /\ pc = "process"
    /\ procIdx < TotalFrames
    /\ midasTransforms = "loaded"
    /\ \E outcome \in {"ok", "model_fails", "transforms_fail"} :
         LET r == MidasModelProperty(outcome) IN
         /\ midasModel' = r.model
         /\ midasTransforms' = r.transforms
    /\ estimateCalls' = Append(estimateCalls, FrameFiles[procIdx + 1])
    /\ Raise("process", "depth: inference failed")
    /\ UNCHANGED <<call, conc, web, depsAvailable, inputs, frameIdx, capOpen, procIdx,
                   outputFile, progress, invoked, completed, metadata>>

\* One iteration of the frame loop that ends without an exception.
ProcessFrame ==
    /\ pc = "process"
    /\ procIdx < TotalFrames
    /\ midasTransforms = "loaded"
    /\ \E outcome \in {"ok", "model_fails", "transforms_fail"} :
         LET r == MidasModelProperty(outcome) IN
         /\ ~r.raised
         /\ midasModel' = r.model
         /\ midasTransforms' = r.transforms
    /\ estimateCalls' = Append(estimateCalls, FrameFiles[procIdx + 1])
    /\ files' = files \cup {ProcessedFile(FrameFiles[procIdx + 1])}
    /\ progress' = IF callback
                   THEN Append(progress, ProcessProgress(procIdx, TotalFrames))
                   ELSE progress
    /\ procIdx' = procIdx + 1
    /\ UNCHANGED <<call, conc, web, depsAvailable, inputs, pc, frameIdx, capOpen, tempDir,
                   outputFile, invoked, completed, exc, metadata, result>>

\* The progress callback raises after the frame was written.
ProcessCallbackRaises ==
    /\ pc = "process"
    /\ procIdx < TotalFrames
    /\ midasTransforms = "loaded"
    /\ callback
    /\ \E outcome \in {"ok", "model_fails", "transforms_fail"} :
         LET r == MidasModelProperty(outcome) IN
         /\ ~r.raised
         /\ midasModel' = r.model
         /\ midasTransforms' = r.transforms
    /\ estimateCalls' = Append(estimateCalls, FrameFiles[procIdx + 1])
    /\ progress' = Append(progress, ProcessProgress(procIdx, TotalFrames))
    /\ Raise("process", "callback raised")
    /\ UNCHANGED <<call, conc, web, depsAvailable, inputs, frameIdx, capOpen, procIdx,
                   outputFile, invoked, completed, metadata>>

\* The loop is exhausted; process_video goes on to _generate_vr180_video.
ProcessEnd ==
    /\ pc = "process"
    /\ procIdx = TotalFrames
    /\ completed' = Append(completed, "process")
    /\ invoked' = Append(invoked, "encode")
    /\ pc' = "encode"
    /\ UNCHANGED <<call, conc, web, service, inputs, frameIdx, capOpen, tempDir, files,
                   procIdx, outputFile, progress, exc, estimateCalls,
                   metadata, result>>

----------------------------------------------------------------------------
\* _generate_vr180_video

\* raise ValueError("No processed frames found")
EncodeNoFrames ==
    /\ pc = "encode"
    /\ InDir("processed_frames") = {}
    /\ Raise("encode", "No processed frames found")
    /\ UNCHANGED <<call, conc, web, service, inputs, frameIdx, capOpen, procIdx, outputFile,
                   progress, invoked, completed, estimateCalls, metadata>>

\* ffmpeg.run raises; the encoder may have started writing the output.
EncodeFails ==
    /\ pc = "encode"
    /\ InDir("processed_frames") # {}
    /\ \E left \in {"absent", "partial"} : outputFile' = left
    /\ Raise("encode", "ffmpeg error")
    /\ UNCHANGED <<call, conc, web, service, inputs, frameIdx, capOpen, procIdx, progress,
                   invoked, completed, estimateCalls, metadata>>

\* ffmpeg.run writes the output; process_video goes on to _generate_thumbnail.
EncodeVideo ==
    /\ pc = "encode"
    /\ InDir("processed_frames") # {}
    /\ outputFile' = "complete"
    /\ progress' = IF callback THEN Append(progress, EncodeProgress) ELSE progress
    /\ completed' = Append(completed, "encode")
    /\ invoked' = Append(invoked, "thumbnail")
    /\ pc' = "thumbnail"
    /\ UNCHANGED <<call, conc, web, service, inputs, frameIdx, capOpen, tempDir, files,
                   procIdx, exc, estimateCalls, metadata, result>>

\* The progress callback raises after the output was written.
EncodeCallbackRaises ==
    /\ pc = "encode"
    /\ InDir("processed_frames") # {}
    /\ callback
    /\ outputFile' = "complete"
    /\ progress' = Append(progress, EncodeProgress)
    /\ Raise("encode", "callback raised")
    /\ UNCHANGED <<call, conc, web, service, inputs, frameIdx, capOpen, procIdx, invoked,
                   completed, estimateCalls, metadata>>

----------------------------------------------------------------------------
\* _generate_thumbnail

\* Variant: the thumbnail error is logged and swallowed, as the metadata
\* error is.
ThumbnailFailsSwallowed ==
    /\ pc = "thumbnail"
    /\ exc' = [stage |-> "thumbnail", msg |-> "ffmpeg error"]
    /\ completed' = Append(completed, "thumbnail")
    /\ invoked' = Append(invoked, "metadata")
    /\ pc' = "metadata"
    /\ UNCHANGED <<call, conc, web, service, inputs, frameIdx, capOpen, tempDir, files, procIdx,
                   outputFile, progress, estimateCalls, metadata, result>>

\* ffmpeg.run raises while extracting the thumbnail.
ThumbnailFails ==
    /\ pc = "thumbnail"
    /\ Raise("thumbnail", "ffmpeg error")
    /\ UNCHANGED <<call, conc, web, service, inputs, frameIdx, capOpen, procIdx, outputFile,
                   progress, invoked, completed, estimateCalls, metadata>>

\* thumbnail.jpg is written into temp_dir; process_video goes on to
\* _get_video_metadata.
GenerateThumbnail ==
    /\ pc = "thumbnail"
    /\ files' = files \cup {ThumbnailFile}
    /\ completed' = Append(completed, "thumbnail")
    /\ invoked' = Append(invoked, "metadata")
    /\ pc' = "metadata"
    /\ UNCHANGED <<call, conc, web, service, inputs, frameIdx, capOpen, tempDir, procIdx,
                   outputFile, progress, exc, estimateCalls, metadata, result>>

----------------------------------------------------------------------------
\* _get_video_metadata

MetadataKeys == {"duration", "width", "height", "fps", "bitrate", "codec"}

\* The dict returned: the six keys, or {} from the except branch when the
\* probe (or reading one of its fields) raises.
VideoMetadata(probeOk) == IF probeOk THEN MetadataKeys ELSE {}

GetVideoMetadata ==
    /\ pc = "metadata"
    /\ \E probeOk \in BOOLEAN : metadata' = VideoMetadata(probeOk)
    /\ completed' = Append(completed, "metadata")
    /\ pc' = "return"
    /\ UNCHANGED <<call, conc, web, service, inputs, frameIdx, capOpen, tempDir, files,
                   procIdx, outputFile, progress, invoked, exc,
                   estimateCalls, result>>

\* The return statement inside the `with` block: the result is built, then
\* the temporary directory is left.
ProcessVideoReturn ==
    /\ pc = "return"
    /\ result' = SuccessResult(metadata)
    /\ LET ws == TemporaryDirectoryExit(FALSE) IN
         /\ tempDir' = ws.dir
         /\ files' = ws.files
    /\ pc' = "done"
    /\ UNCHANGED <<call, conc, web, service, inputs, frameIdx, capOpen, procIdx, outputFile,
                   progress, invoked, completed, exc, estimateCalls, metadata>>

----------------------------------------------------------------------------

Next ==
    \/ AccessMidasModel
    \/ ProcessVideoUnavailable
    \/ ProcessVideoStart
    \/ ExtractWriteFails
    \/ ExtractFrame
    \/ ExtractDivisionByZero
    \/ ExtractCallbackRaises
    \/ ExtractEnd
    \/ ProcessTransformsMissing
    \/ ProcessDepthFails
    \/ ProcessFrame
    \/ ProcessCallbackRaises
    \/ ProcessEnd
    \/ EncodeNoFrames
    \/ EncodeFails
    \/ EncodeVideo
    \/ EncodeCallbackRaises
    \/ ThumbnailFails
    \/ GenerateThumbnail
    \/ GetVideoMetadata
    \/ ProcessVideoReturn

Spec == Init /\ [][Next]_vars

----------------------------------------------------------------------------
\* Pure helpers of the pipeline.  Each action below applies one helper to
\* inputs drawn from a bounded set and records the application in `call`;
\* FnSpec is the specification of these applications.  The helpers run only
\* where cv2, numpy, torch and ffmpeg were imported.

Min(a, b) == IF a <= b THEN a ELSE b
Max(a, b) == IF a >= b THEN a ELSE b

RECURSIVE TenPow(_)
TenPow(k) == IF k = 0 THEN 1 ELSE 10 * TenPow(k - 1)

\* str(n) for n >= 0, as the sequence of its character codes ("0" is 48).
RECURSIVE Digits(_)
Digits(n) == IF n < 10 THEN <<48 + n>>
                       ELSE Append(Digits(n \div 10), 48 + (n % 10))

\* The format width of {frame_idx:06d}.
NameWidth == 6

\* Largest of the small frame indices whose names are compared; the indices
\* around 10^NameWidth are compared as well.
MaxSmallIndex == 11

\* {n:0<width>d}: zeros are added on the left up to the width; a longer
\* number is not cut.
ZeroPad(n, width) ==
    LET d == Digits(n) IN
    IF Len(d) >= width THEN d ELSE [i \in 1 .. width - Len(d) |-> 48] \o d

\* f"frame_{frame_idx:06d}.jpg", as character codes.
FrameName(i) ==
    <<102, 114, 97, 109, 101, 95>> \o ZeroPad(i, NameWidth) \o <<46, 106, 112, 103>>

\* a < b for Python strings: the first differing character decides, and a
\* proper prefix is smaller.
StrLess(a, b) ==
    LET m == Min(Len(a), Len(b)) IN
    \/ \E k \in 1 .. m : a[k] < b[k] /\ \A j \in 1 .. k - 1 : a[j] = b[j]
    \/ Len(a) < Len(b) /\ \A j \in 1 .. m : a[j] = b[j]

FrameIndices ==
    (0 .. MaxSmallIndex) \cup (TenPow(NameWidth) - 2 .. TenPow(NameWidth) + 1)

\* sorted(frame_files) places the file of frame i before the file of frame j.
FnFrameNames ==
    /\ call = NoCall
    /\ depsAvailable
    /\ \E i, j \in FrameIndices :
         /\ i # j
         /\ call' = [fn |-> "frame_names", i |-> i, j |-> j,
                     name_i |-> FrameName(i), name_j |-> FrameName(j),
                     before |-> StrLess(FrameName(i), FrameName(j))]
    /\ UNCHANGED <<pipeline, conc, web>>

\* Depth values are the rationals k / DepthDen, k in 0 .. DepthDen.
DepthDen == 4
DepthValues == {[num |-> k, den |-> DepthDen] : k \in 0 .. DepthDen}

\* Largest frame width for which the disparity of one pixel is computed.
MaxWidth == 60

\* Variant: the maximum disparity is rounded to the nearest integer.
MaxShiftRounded(width) == (width * 5 + 50) \div 100

\* max_shift = int(width * 0.05): 5 % of the width, truncated.
MaxShift(width) == (width * 5) \div 100

\* Variant: the depth value is taken as a number of columns per unit of
\* maximum disparity, without the division.
ShiftUnscaled(depth, maxShift) == depth.num * maxShift

\* shift = int(depth_value * max_shift), truncated; depth_value = num / den.
Shift(depth, maxShift) == (depth.num * maxShift) \div depth.den

\* The disparity _generate_stereo_pair computes for one pixel.
FnShift ==
    /\ call = NoCall
    /\ depsAvailable
    /\ \E width \in 1 .. MaxWidth, depth \in DepthValues :
         call' = [fn |-> "shift", width |-> width, depth |-> depth,
                  max_shift |-> MaxShift(width),
                  shift |-> Shift(depth, MaxShift(width))]
    /\ UNCHANGED <<pipeline, conc, web>>

\* Images are sequences of rows, rows sequences of colours; the code's
\* 0-based position [y, x] is row y + 1, column x + 1.
Pixel(img, y, x) == img[y + 1][x + 1]
SetPixel(img, y, x, v) == [img EXCEPT ![y + 1][x + 1] = v]
Height(img) == Len(img)
Width(img) == Len(img[1])

\* Frames have between 1 and MaxHeight rows and 20, 40, ... 20 * MaxDisparity
\* columns, so that the maximum disparity ranges over 1 .. MaxDisparity.
MaxHeight == 2
MaxDisparity == 2
StereoWidths == {20 * k : k \in 1 .. MaxDisparity}

\* A frame in which every pixel has a colour of its own.
TestFrame(height, width) ==
    [r \in 1 .. height |->
        [c \in 1 .. width |-> (r - 1) * width + (c - 1)] \o <<>>] \o <<>>

\* A depth map that is bg everywhere except at the positions a and b.
TestDepth(height, width, bg, a, da, b, db) ==
    [r \in 1 .. height |-> [c \in 1 .. width |->
        IF <<r - 1, c - 1>> = b THEN db
        ELSE IF <<r - 1, c - 1>> = a THEN da ELSE bg] \o <<>>] \o <<>>

\* if x + shift < width
RightInBounds(x, shift, width) == x + shift < width
\* if x - shift >= 0
LeftInBounds(x, shift) == x - shift >= 0

\* Variant: the colour is read from the view being written instead of the
\* original frame.
StereoStepInPlace(frame, depth, y, x, st) ==
    LET shift == Shift(Pixel(depth, y, x), MaxShift(Width(frame)))
        toRight == RightInBounds(x, shift, Width(frame))
        toLeft == LeftInBounds(x, shift)
    IN  [right |-> IF toRight
                   THEN SetPixel(st.right, y, x + shift, Pixel(st.right, y, x))
                   ELSE st.right,
         left |-> IF toLeft
                  THEN SetPixel(st.left, y, x - shift, Pixel(st.left, y, x))
                  ELSE st.left,
         writes |-> st.writes
            \cup (IF toRight THEN {[view |-> "right", y |-> y, x |-> x,
                                    row |-> y, col |-> x + shift]} ELSE {})
            \cup (IF toLeft THEN {[view |-> "left", y |-> y, x |-> x,
                                   row |-> y, col |-> x - shift]} ELSE {})]

\* The body of the pixel loop for position (y, x): st holds left_view,
\* right_view and the writes made so far.
StereoStep(frame, depth, y, x, st) ==
    LET shift == Shift(Pixel(depth, y, x), MaxShift(Width(frame)))
        toRight == RightInBounds(x, shift, Width(frame))
        toLeft == LeftInBounds(x, shift)
    IN  [right |-> IF toRight
                   THEN SetPixel(st.right, y, x + shift, Pixel(frame, y, x))
                   ELSE st.right,
         left |-> IF toLeft
                  THEN SetPixel(st.left, y, x - shift, Pixel(frame, y, x))
                  ELSE st.left,
         writes |-> st.writes
            \cup (IF toRight THEN {[view |-> "right", y |-> y, x |-> x,
                                    row |-> y, col |-> x + shift]} ELSE {})
            \cup (IF toLeft THEN {[view |-> "left", y |-> y, x |-> x,
                                   row |-> y, col |-> x - shift]} ELSE {})]

\* for y in range(height): for x in range(width): the loop body applied to
\* the positions lo .. hi - 1 in ascending row-major order, position number p
\* being (y, x) = (p \div width, p % width).  The range is split in two so
\* that TLC's evaluation depth stays logarithmic; the test on `first` makes
\* TLC evaluate the first half before it enters the second.
RECURSIVE StereoLoop(_, _, _, _, _)
StereoLoop(frame, depth, lo, hi, st) ==
    IF hi <= lo THEN st
    ELSE IF hi = lo + 1
    THEN StereoStep(frame, depth, lo \div Width(frame), lo % Width(frame), st)
    ELSE LET mid == (lo + hi) \div 2
             first == StereoLoop(frame, depth, lo, mid, st)
         IN  IF DOMAIN first = {} THEN first
             ELSE StereoLoop(frame, depth, mid, hi, first)

\* Variant: the right view is placed first.
CombineSwapped(left, right, mode) ==
    IF mode = "side-by-side"
    THEN [r \in 1 .. Len(left) |-> right[r] \o left[r]]
    ELSE right \o left

\* np.hstack([left_view, right_view]) for side-by-side, np.vstack otherwise.
Combine(left, right, mode) ==
    IF mode = "side-by-side"
    THEN [r \in 1 .. Len(left) |-> left[r] \o right[r]]
    ELSE left \o right

\* _generate_stereo_pair: both views start as copies of the frame.
GenerateStereoPair(frame, depth, mode) ==
    LET st == StereoLoop(frame, depth, 0, Height(frame) * Width(frame),
                         [left |-> frame, right |-> frame, writes |-> {}])
    IN  [left |-> st.left, right |-> st.right, writes |-> st.writes,
         stereo |-> Combine(st.left, st.right, mode)]

\* Columns at which the depth map may differ from its background.
EdgeColumns(width) == {0, 1, width - 1}

FnStereoPair ==
    /\ call = NoCall
    /\ depsAvailable
    /\ \E width \in StereoWidths, height \in 1 .. MaxHeight,
          mode \in {"side-by-side", "top-bottom"},
          bg \in {[num |-> 0, den |-> DepthDen], [num |-> DepthDen, den |-> DepthDen]},
          da \in DepthValues, db \in DepthValues :
         \E xa \in EdgeColumns(width), xb \in EdgeColumns(width) :
            LET frame == TestFrame(height, width)
                depth == TestDepth(height, width, bg, <<0, xa>>, da,
                                   <<height - 1, xb>>, db)
            IN  call' = [fn |-> "stereo_pair", frame |-> frame, depth |-> depth,
                         mode |-> mode,
                         out |-> GenerateStereoPair(frame, depth, mode)]
    /\ UNCHANGED <<pipeline, conc, web>>

\* ---- _estimate_depth: normalisation of the depth map ----

MaxPixels == 3
MaxRawDepth == 2

\* The depth maps MiDaS can return, flattened: every pixel any raw value.
RawDepthMaps == UNION {[1 .. n -> 0 .. MaxRawDepth] : n \in 1 .. MaxPixels}

ArrayMin(a) == CHOOSE m \in {a[i] : i \in DOMAIN a} : \A i \in DOMAIN a : m <= a[i]
ArrayMax(a) == CHOOSE m \in {a[i] : i \in DOMAIN a} : \A i \in DOMAIN a : a[i] <= m

\* Floating-point division of numpy arrays: x / 0 raises nothing, it gives
\* nan for x = 0 and an infinity otherwise.
Divide(num, den) ==
    IF den # 0 THEN [kind |-> "number", num |-> num, den |-> den]
    ELSE IF num = 0 THEN [kind |-> "nan"]
    ELSE [kind |-> "inf"]

\* depth_map = (depth_map - depth_map.min()) / (depth_map.max() - depth_map.min())
Normalize(raw) ==
    [i \in DOMAIN raw |-> Divide(raw[i] - ArrayMin(raw), ArrayMax(raw) - ArrayMin(raw))]

FnNormalize ==
    /\ call = NoCall
    /\ depsAvailable
    /\ \E raw \in RawDepthMaps :
         call' = [fn |-> "normalize", raw |-> raw, out |-> Normalize(raw)]
    /\ UNCHANGED <<pipeline, conc, web>>

\* ---- _generate_vr180_video: output resolution, bitrate, scale filter ----

Resolutions == {"720p", "1080p", "1440p", "4K"}
Qualities == {"low", "medium", "high", "ultra"}

GetOutputResolution(resolution) ==
    IF resolution = "720p" THEN <<1280, 720>>
    ELSE IF resolution = "1080p" THEN <<1920, 1080>>
    ELSE IF resolution = "1440p" THEN <<2560, 1440>>
    ELSE IF resolution = "4K" THEN <<3840, 2160>>
    ELSE <<1920, 1080>>

BaseBitrate(quality) ==
    IF quality = "low" THEN 1000
    ELSE IF quality = "medium" THEN 2500
    ELSE IF quality = "high" THEN 5000
    ELSE IF quality = "ultra" THEN 10000
    ELSE 2500

RECURSIVE Gcd(_, _)
Gcd(a, b) == IF b = 0 THEN a ELSE Gcd(b, a % b)

\* resolution_factor = (width * height) / (1920 * 1080), in lowest terms.
ResolutionFactor(width, height) ==
    LET g == Gcd(width * height, 1920 * 1080)
    IN  [num |-> (width * height) \div g, den |-> (1920 * 1080) \div g]

\* Variant: the kbps value is rounded to the nearest integer.
GetBitrateRounded(quality, width, height) ==
    LET f == ResolutionFactor(width, height)
    IN  Digits((2 * BaseBitrate(quality) * f.num + f.den) \div (2 * f.den)) \o <<107>>

\* f"{int(base_bitrate * resolution_factor)}k": the integer part of the
\* product, in decimal, followed by the letter k (code 107).
GetBitrate(quality, width, height) ==
    LET f == ResolutionFactor(width, height)
    IN  Digits((BaseBitrate(quality) * f.num) \div f.den) \o <<107>>

\* Variant: no scale filter, the frames are encoded at their own size.
ScaleFilterNone(inDims, width, height) == inDims

\* ffmpeg's scale filter with a width and a height: the output has exactly
\* these dimensions, whatever the input's.
ScaleFilter(inDims, width, height) == <<width, height>>

\* The dimensions of the processed frames the encoder reads: stereo pairs of
\* either layout, of small and of large sources.
StereoFrameDims == {<<40, 20>>, <<20, 40>>, <<3840, 1080>>, <<1920, 2160>>, <<2560, 720>>}

\* The parameters _generate_vr180_video hands to ffmpeg.
FnEncodeParams ==
    /\ call = NoCall
    /\ depsAvailable
    /\ \E quality \in Qualities \cup {"other"},
          resolution \in Resolutions \cup {"other"},
          inDims \in StereoFrameDims :
         LET res == GetOutputResolution(resolution)
         IN  call' = [fn |-> "encode_params", quality |-> quality,
                      resolution |-> resolution, in_dims |-> inDims,
                      output_width |-> res[1], output_height |-> res[2],
                      bitrate |-> GetBitrate(quality, res[1], res[2]),
                      out_dims |-> ScaleFilter(inDims, res[1], res[2])]
    /\ UNCHANGED <<pipeline, conc, web>>


----------------------------------------------------------------------------
\* AuthMiddleware.  A path is the sequence of its characters.

\* excluded_auth_paths of create_app: /, /health, /docs, /redoc, /openapi.json,
\* /auth/register, /auth/login, /system/health, /system/status
ExcludedAuthPaths ==
    <<<<"/">>,
      <<"/", "h", "e", "a", "l", "t", "h">>,
      <<"/", "d", "o", "c", "s">>,
      <<"/", "r", "e", "d", "o", "c">>,
      <<"/", "o", "p", "e", "n", "a", "p", "i", ".", "j", "s", "o", "n">>,
      <<"/", "a", "u", "t", "h", "/", "r", "e", "g", "i", "s", "t", "e", "r">>,
      <<"/", "a", "u", "t", "h", "/", "l", "o", "g", "i", "n">>,
      <<"/", "s", "y", "s", "t", "e", "m", "/", "h", "e", "a", "l", "t", "h">>,
      <<"/", "s", "y", "s", "t", "e", "m", "/", "s", "t", "a", "t", "u", "s">>>>

\* The request paths: /, /health, /healthz, /auth/login, /auth/profile, /videos/upload, /videos/convert
RequestPaths ==
    {<<"/">>,
     <<"/", "h", "e", "a", "l", "t", "h">>,
     <<"/", "h", "e", "a", "l", "t", "h", "z">>,
     <<"/", "a", "u", "t", "h", "/", "l", "o", "g", "i", "n">>,
     <<"/", "a", "u", "t", "h", "/", "p", "r", "o", "f", "i", "l", "e">>,
     <<"/", "v", "i", "d", "e", "o", "s", "/", "u", "p", "l", "o", "a", "d">>,
     <<"/", "v", "i", "d", "e", "o", "s", "/", "c", "o", "n", "v", "e", "r", "t">>}

\* path.startswith(prefix)
StartsWith(path, prefix) ==
    Len(prefix) <= Len(path) /\ SubSeq(path, 1, Len(prefix)) = prefix

\* _should_skip_auth: an exact match, or an excluded path that is a prefix.
ShouldSkipAuth(path) ==
    \/ \E k \in DOMAIN ExcludedAuthPaths : path = ExcludedAuthPaths[k]
    \/ \E k \in DOMAIN ExcludedAuthPaths : StartsWith(path, ExcludedAuthPaths[k])

\* AuthMiddleware.dispatch.  token is "none", "valid" or "invalid"
\* (verify_token raises); handlerOk is whether call_next returns a response.
\* The result: the status of the response or of the HTTPException raised,
\* whether call_next ran, whether the token was verified and whether
\* request.state holds the user context.
Dispatch(path, token, handlerOk) ==
    IF ShouldSkipAuth(path)
    THEN [status |-> IF handlerOk THEN 200 ELSE 500, reached |-> TRUE,
          verified |-> FALSE, user_state |-> FALSE]
    ELSE IF token = "none"
    THEN [status |-> 401, reached |-> FALSE, verified |-> FALSE, user_state |-> FALSE]
    ELSE IF token = "invalid"
    THEN [status |-> 401, reached |-> FALSE, verified |-> FALSE, user_state |-> FALSE]
    ELSE [status |-> IF handlerOk THEN 200 ELSE 401, reached |-> TRUE,
          verified |-> TRUE, user_state |-> TRUE]

FnDispatch ==
    /\ call = NoCall
    /\ \E path \in RequestPaths, token \in {"none", "valid", "invalid"},
          handlerOk \in BOOLEAN :
         call' = [fn |-> "dispatch", path |-> path, token |-> token,
                  out |-> Dispatch(path, token, handlerOk)]
    /\ UNCHANGED <<pipeline, conc, web>>

----------------------------------------------------------------------------
\* Routing.  A request path is the sequence of its segments: /videos/ is
\* <<"videos", "">>.  A route is a method and a pattern whose segments are
\* literals or the parameter "{}", which matches any segment but the empty
\* one.

\* The routes of the videos router (prefix /videos) and of create_app.
VideoRoutes ==
    <<[method |-> "POST", pattern |-> <<"videos", "upload">>, handler |-> "upload_video"],
      [method |-> "POST", pattern |-> <<"videos", "convert">>, handler |-> "convert_video"],
      [method |-> "GET", pattern |-> <<"videos", "status", "{}">>,
       handler |-> "get_conversion_status"],
      [method |-> "GET", pattern |-> <<"videos", "{}">>, handler |-> "get_video_info"],
      [method |-> "GET", pattern |-> <<"videos", "download", "{}">>,
       handler |-> "get_download_url"],
      [method |-> "GET", pattern |-> <<"videos", "preview", "{}">>,
       handler |-> "get_preview_url"],
      [method |-> "GET", pattern |-> <<"videos", "user", "{}">>,
       handler |-> "get_user_videos"],
      [method |-> "DELETE", pattern |-> <<"videos", "{}">>, handler |-> "delete_video"],
      [method |-> "GET", pattern |-> <<"">>, handler |-> "root"],
      [method |-> "GET", pattern |-> <<"health">>, handler |-> "health"]>>

\* The path matches the pattern of the route.
PathMatches(pattern, path) ==
    /\ Len(pattern) = Len(path)
    /\ \A k \in 1 .. Len(path) :
          IF pattern[k] = "{}" THEN path[k] # "" ELSE pattern[k] = path[k]

\* Starlette's Router: the first route whose path and method match handles
\* the request; a path that matches under other methods only gives 405; a
\* path that matches nothing but does so without its trailing slash is
\* redirected (307); anything else is 404.
Route(method, path) ==
    LET Full == {k \in DOMAIN VideoRoutes :
                    PathMatches(VideoRoutes[k].pattern, path)
                    /\ VideoRoutes[k].method = method}
        Partial == {k \in DOMAIN VideoRoutes : PathMatches(VideoRoutes[k].pattern, path)}
        stripped == SubSeq(path, 1, Len(path) - 1)
    IN  IF Full # {}
        THEN [status |-> 200,
              handler |-> VideoRoutes[CHOOSE k \in Full : \A j \in Full : k <= j].handler]
        ELSE IF Partial # {} THEN [status |-> 405, handler |-> "none"]
        ELSE IF Len(path) > 1 /\ path[Len(path)] = ""
                /\ \E k \in DOMAIN VideoRoutes :
                      PathMatches(VideoRoutes[k].pattern, stripped)
        THEN [status |-> 307, handler |-> "none"]
        ELSE [status |-> 404, handler |-> "none"]

\* The paths and methods requested.
RoutedPaths ==
    {<<"">>, <<"health">>, <<"videos", "">>, <<"videos">>, <<"videos", "upload">>,
     <<"videos", "convert">>, <<"videos", "v1">>, <<"videos", "v1", "">>,
     <<"videos", "download", "v1">>, <<"videos", "status", "j1">>}

FnRoute ==
    /\ call = NoCall
    /\ \E method \in {"GET", "POST", "DELETE"}, path \in RoutedPaths :
         call' = [fn |-> "route", method |-> method, path |-> path,
                  out |-> Route(method, path)]
    /\ UNCHANGED <<pipeline, conc, web>>

FnNext ==
    \/ FnFrameNames
    \/ FnShift
    \/ FnStereoPair
    \/ FnNormalize
    \/ FnEncodeParams
    \/ FnDispatch
    \/ FnRoute

FnSpec == Init /\ [][FnNext]_vars

----------------------------------------------------------------------------
\* Concurrent invocations of process_video on the shared service instance.
\* Each invocation is stepped through its file operations: the frames it
\* writes, lists, reads and hands to the encoder, and the removal of its
\* temporary directory.  A file carries the invocation that wrote it last.

MaxConcFrames == 2

TempNames == {"tmp_a", "tmp_b", "tmp_c"}

\* Variant: the workspace is a fixed directory created with exist_ok.
MkDTempFixed(existing) == {"tmp_a"}

\* tempfile.mkdtemp: a new directory under a name that does not exist yet.
MkDTemp(existing) == TempNames \ existing

\* os.path.join(temp_dir, sub, name), written by invocation i.
TempFile(dir, sub, idx, i) == [dir |-> dir, sub |-> sub, idx |-> idx, by |-> i]

SamePath(f, g) == f.dir = g.dir /\ f.sub = g.sub /\ f.idx = g.idx

\* os.listdir(os.path.join(temp_dir, sub))
ListDir(dir, sub) == {f \in tmpFiles : f.dir = dir /\ f.sub = sub}

\* Everything below temp_dir.
FilesUnder(dir) == {f \in tmpFiles : f.dir = dir}

\* cv2.imwrite and ffmpeg's output: the file at the path is replaced.
WriteFile(f) == {g \in tmpFiles : ~SamePath(f, g)} \cup {f}

\* with tempfile.TemporaryDirectory() as temp_dir; _extract_frames begins.
ConcStart(i) ==
    /\ inv[i].pc = "idle"
    /\ \E name \in MkDTemp(tmpDirs), n \in 0 .. MaxConcFrames :
         /\ tmpDirs' = tmpDirs \cup {name}
         /\ inv' = [inv EXCEPT ![i] = [@ EXCEPT !.pc = "extract", !.dir = name,
                                                !.frames = n, !.idx = 0]]
    /\ UNCHANGED <<pipeline, call, web, tmpFiles>>

\* cv2.imwrite(os.path.join(frames_dir, f"frame_{frame_idx:06d}.jpg"), frame)
ConcExtractFrame(i) ==
    /\ inv[i].pc = "extract"
    /\ inv[i].idx < inv[i].frames
    /\ LET f == TempFile(inv[i].dir, "frames", inv[i].idx, i) IN
       /\ tmpFiles' = WriteFile(f)
       /\ inv' = [inv EXCEPT ![i] = [@ EXCEPT !.idx = @ + 1,
                                              !.writes = @ \cup {f}]]
    /\ UNCHANGED <<pipeline, call, web, tmpDirs>>

\* The read loop ends; _process_frames_for_vr180 starts its loop over the
\* listing of frames_dir.
ConcExtractEnd(i) ==
    /\ inv[i].pc = "extract"
    /\ inv[i].idx = inv[i].frames
    /\ inv' = [inv EXCEPT ![i] = [@ EXCEPT !.pc = "process", !.idx = 0]]
    /\ UNCHANGED <<pipeline, call, web, tmpDirs, tmpFiles>>

\* The frames of frames_dir that have no processed frame yet.
Unprocessed(i) ==
    {f \in ListDir(inv[i].dir, "frames") :
        ~ \E g \in inv[i].writes : g.sub = "processed_frames" /\ g.idx = f.idx}

\* cv2.imread(frame_path) ... cv2.imwrite(output_path, stereo_bgr)
ConcProcessFrame(i) ==
    /\ inv[i].pc = "process"
    /\ Unprocessed(i) # {}
    /\ LET f == CHOOSE g \in Unprocessed(i) : \A h \in Unprocessed(i) : g.idx <= h.idx
           out == TempFile(inv[i].dir, "processed_frames", f.idx, i)
       IN  /\ tmpFiles' = WriteFile(out)
           /\ inv' = [inv EXCEPT ![i] = [@ EXCEPT !.reads = @ \cup {f},
                                                  !.writes = @ \cup {out}]]
    /\ UNCHANGED <<pipeline, call, web, tmpDirs>>

\* The loop is exhausted; _generate_vr180_video starts.
ConcProcessEnd(i) ==
    /\ inv[i].pc = "process"
    /\ Unprocessed(i) = {}
    /\ inv' = [inv EXCEPT ![i] = [@ EXCEPT !.pc = "encode"]]
    /\ UNCHANGED <<pipeline, call, web, tmpDirs, tmpFiles>>

\* ffmpeg reads processed_frames_dir/frame_%06d.jpg; then the thumbnail is
\* written into temp_dir.
ConcEncode(i) ==
    /\ inv[i].pc = "encode"
    /\ ListDir(inv[i].dir, "processed_frames") # {}
    /\ LET thumb == TempFile(inv[i].dir, "", 0, i) IN
       /\ tmpFiles' = WriteFile(thumb)
       /\ inv' = [inv EXCEPT ![i] =
                     [@ EXCEPT !.pc = "return",
                               !.reads = @ \cup ListDir(inv[i].dir, "processed_frames"),
                               !.writes = @ \cup {thumb}]]
    /\ UNCHANGED <<pipeline, call, web, tmpDirs>>

\* The `with` block is left, by the return or by an exception of a stage:
\* the directory and everything below it is removed.
ConcExit(i) ==
    /\ inv[i].pc \in {"extract", "process", "encode", "return"}
    /\ tmpFiles' = tmpFiles \ FilesUnder(inv[i].dir)
    /\ tmpDirs' = tmpDirs \ {inv[i].dir}
    /\ inv' = [inv EXCEPT ![i] = [@ EXCEPT !.pc = "done",
                                           !.removed = FilesUnder(inv[i].dir)]]
    /\ UNCHANGED <<pipeline, call, web>>

ConcNext ==
    \E i \in Invocations :
        \/ ConcStart(i)
        \/ ConcExtractFrame(i)
        \/ ConcExtractEnd(i)
        \/ ConcProcessFrame(i)
        \/ ConcProcessEnd(i)
        \/ ConcEncode(i)
        \/ ConcExit(i)

ConcSpec == Init /\ [][ConcNext]_vars

----------------------------------------------------------------------------
\* The video endpoints of routes/videos.py that take a video id.  A request
\* is stepped at its awaits: the lookup with the checks that follow it, and
\* one step per call of a service after that.  Every call of a service
\* either returns or raises; a raise is answered 500 by the handler's
\* `except Exception`.  effects is the set of side effects the request has
\* performed.

Endpoints == {"convert", "info", "download", "preview", "delete"}

\* The request has ended with this response.
Respond(r, code) == [req EXCEPT ![r] = [@ EXCEPT !.pc = "done", !.response = code]]

\* A request of an authenticated user arrives at a handler.
Arrive(r) ==
    /\ req[r].pc = "none"
    /\ \E e \in Endpoints, u \in Users, v \in VideoIds, fmt \in {"original", "vr180"} :
         /\ e # "download" => fmt = "original"
         /\ req' = [req EXCEPT ![r] =
                       [pc |-> "lookup", endpoint |-> e, user |-> u, video |-> v,
                        format_type |-> fmt, found |-> FALSE, info |-> NoVideo,
                        response |-> 0, effects |-> {}]]
    /\ UNCHANGED <<pipeline, call, conc, videos, jobs, tasks, gcsFiles, urls>>

\* Variant: the ownership check is missing.
AccessDeniedNever(info, user) == FALSE

\* if video_info.user_id != current_user.user_id
AccessDenied(info, user) == info.user_id # user

\* if video_info.status != VideoStatusEnum.UPLOADED
NotReady(info) == info.status # "uploaded"

\* What the handler does with the record it looked up, up to its next await:
\* the response it raises or returns, or the step it goes on to.
AfterLookup(endpoint, info, user, fmt) ==
    IF ~info.exists THEN [pc |-> "done", response |-> 404]
    ELSE IF AccessDenied(info, user) THEN [pc |-> "done", response |-> 403]
    ELSE CASE endpoint = "convert" ->
                IF NotReady(info) THEN [pc |-> "done", response |-> 400]
                ELSE [pc |-> "create_job", response |-> 0]
           [] endpoint = "info" -> [pc |-> "done", response |-> 200]
           [] endpoint = "download" ->
                IF fmt = "vr180" /\ ~info.converted_url
                THEN [pc |-> "done", response |-> 400]
                ELSE [pc |-> "sign_url", response |-> 0]
           [] endpoint = "preview" ->
                IF ~info.converted_url THEN [pc |-> "done", response |-> 400]
                ELSE [pc |-> "public_url", response |-> 0]
           [] OTHER -> [pc |-> "delete_files", response |-> 0]

\* video_info = await firestore_service.get_video_by_id(video_id), and the
\* checks on it.
Lookup(r) ==
    /\ req[r].pc = "lookup"
    /\ \/ req' = Respond(r, 500)
       \/ LET info == videos[req[r].video]
              next == AfterLookup(req[r].endpoint, info, req[r].user,
                                  req[r].format_type)
          IN  req' = [req EXCEPT ![r] =
                         [@ EXCEPT !.found = TRUE, !.info = info,
                                   !.pc = next.pc, !.response = next.response]]
    /\ UNCHANGED <<pipeline, call, conc, videos, jobs, tasks, gcsFiles, urls>>

\* await firestore_service.create_job_record(job_data); the job id is a
\* fresh uuid4, here the request's id.
ConvertCreateJob(r) ==
    /\ req[r].pc = "create_job"
    /\ \/ /\ req' = Respond(r, 500)
          /\ UNCHANGED jobs
       \/ /\ jobs' = jobs \cup {[job_id |-> r, video_id |-> req[r].video,
                                 user_id |-> req[r].user, status |-> "queued"]}
          /\ req' = [req EXCEPT ![r] = [@ EXCEPT !.pc = "update_video",
                                                 !.effects = @ \cup {"job"}]]
    /\ UNCHANGED <<pipeline, call, conc, videos, tasks, gcsFiles, urls>>

\* await firestore_service.update_video(video_id, {'status': QUEUED})
ConvertUpdateVideo(r) ==
    /\ req[r].pc = "update_video"
    /\ \/ /\ req' = Respond(r, 500)
          /\ UNCHANGED videos
       \/ /\ videos' = [videos EXCEPT ![req[r].video] = [@ EXCEPT !.status = "queued"]]
          /\ req' = [req EXCEPT ![r] = [@ EXCEPT !.pc = "create_task",
                                                 !.effects = @ \cup {"status"}]]
    /\ UNCHANGED <<pipeline, call, conc, jobs, tasks, gcsFiles, urls>>

\* await cloud_tasks_service.create_video_conversion_task(...), then the
\* response.
ConvertCreateTask(r) ==
    /\ req[r].pc = "create_task"
    /\ \/ /\ req' = Respond(r, 500)
          /\ UNCHANGED tasks
       \/ /\ tasks' = tasks \cup {[job_id |-> r, video_id |-> req[r].video]}
          /\ req' = [req EXCEPT ![r] = [@ EXCEPT !.pc = "done", !.response = 200,
                                                 !.effects = @ \cup {"task"}]]
    /\ UNCHANGED <<pipeline, call, conc, videos, jobs, gcsFiles, urls>>

\* await gcs_service.generate_signed_download_url(...), which raises when
\* the file is not in the bucket.
DownloadSignUrl(r) ==
    /\ req[r].pc = "sign_url"
    /\ \/ /\ req' = Respond(r, 500)
          /\ UNCHANGED urls
       \/ /\ req[r].video \in gcsFiles
          /\ urls' = urls \cup {[req |-> r, kind |-> "download", video |-> req[r].video]}
          /\ req' = [req EXCEPT ![r] = [@ EXCEPT !.pc = "done", !.response = 200,
                                                 !.effects = @ \cup {"url"}]]
    /\ UNCHANGED <<pipeline, call, conc, videos, jobs, tasks, gcsFiles>>

\* await gcs_service.generate_public_url(...) for the video and for the
\* thumbnail.
PreviewPublicUrl(r) ==
    /\ req[r].pc = "public_url"
    /\ \/ /\ req' = Respond(r, 500)
          /\ UNCHANGED urls
       \/ /\ req[r].video \in gcsFiles
          /\ urls' = urls \cup {[req |-> r, kind |-> "preview", video |-> req[r].video]}
          /\ req' = [req EXCEPT ![r] = [@ EXCEPT !.pc = "done", !.response = 200,
                                                 !.effects = @ \cup {"url"}]]
    /\ UNCHANGED <<pipeline, call, conc, videos, jobs, tasks, gcsFiles>>

\* await gcs_service.delete_video_files(user_id, video_id); the Firestore
\* record stays (TODO in the handler).
DeleteFiles(r) ==
    /\ req[r].pc = "delete_files"
    /\ \/ /\ req' = Respond(r, 500)
          /\ UNCHANGED gcsFiles
       \/ /\ gcsFiles' = gcsFiles \ {req[r].video}
          /\ req' = [req EXCEPT ![r] = [@ EXCEPT !.pc = "done", !.response = 200,
                                                 !.effects = @ \cup {"delete"}]]
    /\ UNCHANGED <<pipeline, call, conc, videos, jobs, tasks, urls>>

WebNext ==
    \E r \in Requests :
        \/ Arrive(r)
        \/ Lookup(r)
        \/ ConvertCreateJob(r)
        \/ ConvertUpdateVideo(r)
        \/ ConvertCreateTask(r)
        \/ DownloadSignUrl(r)
        \/ PreviewPublicUrl(r)
        \/ DeleteFiles(r)

WebSpec == Init /\ [][WebNext]_vars

----------------------------------------------------------------------------
\* Properties of process_video

\* Comparisons of percentages num / den (den > 0) by cross-multiplication.
PctLeq(a, b) == a.num * b.den <= b.num * a.den
PctIs(a, n) == a.num = n * a.den
PctIn(a, lo, hi) == lo * a.den <= a.num /\ a.num <= hi * a.den

IsPrefix(s, t) == Len(s) <= Len(t) /\ \A i \in 1 .. Len(s) : s[i] = t[i]
Stages(s) == {s[i] : i \in 1 .. Len(s)}
StageErrors == {"extract", "process", "encode", "thumbnail"}
DepthErrors == {"depth: no attribute _midas_transforms", "depth: inference failed"}

\* C1: whenever process_video has returned from a run that created a
\* workspace, on the success path or after a failure of any stage, the
\* temporary directory is removed and none of its files exists.
C1_WorkspaceReleased ==
    (result.returned /\ tempDir # "none") => (tempDir = "removed" /\ files = {})

\* A run that failed in thumbnail extraction, after frames, processed frames
\* and the output were written, has returned with the workspace removed.
C1_Witness ==
    /\ result.returned
    /\ exc.stage = "thumbnail"
    /\ source.frames = MaxFrames
    /\ tempDir = "removed"

\* C2: an exception of extraction, frame processing, depth estimation,
\* encoding or thumbnail extraction never escapes: once one is raised,
\* process_video has returned a result with success false that carries the
\* exception's message, and a result with success true is returned only when
\* none of these stages raised and all of them completed.
C2_StageErrorsCaught ==
    /\ exc.stage \in StageErrors =>
         /\ pc = "done"
         /\ result.returned
         /\ ~result.success
         /\ result.error = exc.msg
    /\ result.success =>
         /\ result.returned
         /\ exc = NoExc
         /\ StageErrors \subseteq Stages(completed)

\* A depth-estimation error on a later frame was turned into a failure result.
C2_Witness ==
    /\ exc.stage = "process"
    /\ Len(estimateCalls) > 1
    /\ result.returned
    /\ ~result.success
    /\ result.error = "depth: inference failed"

\* C3: a failure result is never paired with an output file at the
\* destination: whenever process_video returned success false, no file
\* written by the run exists at output_path.
C3_FailureLeavesNoOutput ==
    (result.returned /\ ~result.success) => outputFile = "absent"

\* C4: the stages are invoked in the order extraction, frame processing,
\* encoding, thumbnail, metadata; each at most once and only after the one
\* before it completed; none is invoked after a stage raised; and a finished
\* run is either a success with all stages completed or a failure.
C4_StagesLinear ==
    /\ IsPrefix(invoked, StageOrder)
    /\ IsPrefix(completed, invoked)
    /\ Len(invoked) <= Len(completed) + 1
    /\ exc # NoExc =>
         /\ pc = "done"
         /\ invoked = Append(completed, exc.stage)
    /\ pc = "done" =>
         /\ result.returned
         /\ result.success <=> completed = StageOrder
         /\ result.success <=> exc = NoExc /\ invoked # <<>>

\* A run that failed in encoding after frames were processed.
C4_Witness ==
    /\ pc = "done"
    /\ exc.stage = "encode"
    /\ invoked = <<"extract", "process", "encode">>
    /\ Len(estimateCalls) > 0
    /\ ~result.success

\* C5: a failing metadata probe fails the run, so every success result
\* carries metadata with duration, width, height, frame rate, bitrate and
\* codec.
C5_SuccessHasMetadata ==
    (result.returned /\ result.success) => result.metadata = MetadataKeys

C7_ProgressMonotone ==
    /\ \A i \in 1 .. Len(progress) - 1 : PctLeq(progress[i], progress[i + 1])
    /\ (result.success /\ callback) =>
         /\ progress # <<>>
         /\ PctIs(progress[Len(progress)], EncodingDone)

\* C8: every percentage lies in the sub-range of the stage that reported it:
\* extraction in [0, 20], frame processing in [20, 80], encoding in [80, 100].
C8_ProgressInStageRange ==
    \A i \in 1 .. Len(progress) :
        LET p == progress[i] IN
        /\ p.stage = "extract" => PctIn(p, 0, ExtractionShare)
        /\ p.stage = "process" =>
             PctIn(p, ExtractionShare, ExtractionShare + ProcessingShare)
        /\ p.stage = "encode" =>
             PctIn(p, ExtractionShare + ProcessingShare, EncodingDone)

\* C9: once a stage has completed in a run with a callback, the final value
\* of its sub-range has been reported: 20 for extraction, 80 for frame
\* processing, 100 for encoding.
C9_StageFinalValueReported ==
    LET Reported(n) == \E i \in 1 .. Len(progress) : PctIs(progress[i], n) IN
    callback =>
        /\ "extract" \in Stages(completed) => Reported(ExtractionShare)
        /\ "process" \in Stages(completed) =>
             Reported(ExtractionShare + ProcessingShare)
        /\ "encode" \in Stages(completed) => Reported(EncodingDone)

\* C11: a source that cannot be opened or yields no decodable frame makes
\* the extraction stage itself fail: frame processing and encoding are never
\* invoked for it, and once extraction is over the run has failed in
\* extraction.
C11_EmptySourceFailsInExtraction ==
    (tempDir # "none" /\ source.frames = 0) =>
        /\ Stages(invoked) \subseteq {"extract"}
        /\ result.returned => (~result.success /\ exc.stage = "extract")

\* C12: a failure result of a failed stage identifies the kind of the error
\* next to its message.
C12_FailureCarriesKind ==
    (result.returned /\ ~result.success /\ exc.stage \in StageErrors) =>
        "kind" \in ResultKeys(result)

\* C13: frame order is preserved: extracted frames carry fixed-width
\* zero-padded names, so that the sorted listing visits the frames in
\* ascending index order (frame i before frame j exactly when i < j), each
\* processed frame is written under the index of its source frame, and when
\* processing is over the processed frames have exactly the indices of the
\* extracted ones.
C13_FrameOrderPreserved ==
    /\ call.fn = "frame_names" =>
         /\ Len(call.name_i) = Len(call.name_j)
         /\ call.before <=> call.i < call.j
    /\ InDir("processed_frames") \subseteq InDir("frames")
    /\ "process" \in Stages(completed) =>
         InDir("processed_frames") = InDir("frames")

\* n is the integer part of p / q (p >= 0, q > 0).
IsTruncation(n, p, q) == n * q <= p /\ p < (n + 1) * q
\* n is an integer nearest to p / q (either neighbour at a tie).
IsNearest(n, p, q) == 2 * n * q - q <= 2 * p /\ 2 * p <= 2 * n * q + q

\* C15 as stated: the maximum disparity is width * 0.05 rounded to the
\* nearest integer and the shift of a pixel is depth * maxShift rounded to
\* the nearest integer.
C15_ShiftRounded ==
    call.fn = "shift" =>
        /\ IsNearest(call.max_shift, call.width * 5, 100)
        /\ IsNearest(call.shift, call.depth.num * call.max_shift, call.depth.den)

\* C15, amended: the maximum disparity is the integer part of width * 0.05
\* and the shift of a pixel is the integer part of depth * maxShift
\* (truncation, not rounding to nearest).
C15_ShiftTruncated ==
    call.fn = "shift" =>
        /\ IsTruncation(call.max_shift, call.width * 5, 100)
        /\ IsTruncation(call.shift, call.depth.num * call.max_shift, call.depth.den)

\* Width 59 and depth 3/4: 2.95 is cut to 2 and 1.5 is cut to 1.
C15_Witness ==
    /\ call.fn = "shift"
    /\ call.width = 59
    /\ call.depth = [num |-> 3, den |-> DepthDen]
    /\ call.max_shift = 2
    /\ call.shift = 1

\* The columns x of row y whose pixel is written to column c of the right
\* view, and of the left view.
RightSources(frame, depth, y, c) ==
    {x \in 0 .. Width(frame) - 1 :
        x + Shift(Pixel(depth, y, x), MaxShift(Width(frame))) = c}
LeftSources(frame, depth, y, c) ==
    {x \in 0 .. Width(frame) - 1 :
        x - Shift(Pixel(depth, y, x), MaxShift(Width(frame))) = c}
Largest(S) == CHOOSE m \in S : \A n \in S : n <= m

RoundedMaxShift(width) == (width * 5 + 49) \div 100
Abs(n) == IF n < 0 THEN -n ELSE n

\* C16: every write of _generate_stereo_pair lands in the row of its source
\* pixel, in a column of 0 .. width - 1 at most round(width * 0.05) columns
\* away from it; the views keep the frame's dimensions and each of their
\* pixels is a pixel of the same row of the frame at most round(width * 0.05)
\* columns away.
C16_DisparityBounded ==
    call.fn = "stereo_pair" =>
        LET width == Width(call.frame)
            height == Height(call.frame)
            bound == RoundedMaxShift(width)
            Near(view, y, c) ==
                \E x \in 0 .. width - 1 :
                    /\ Abs(x - c) <= bound
                    /\ Pixel(view, y, c) = Pixel(call.frame, y, x)
        IN  /\ \A wr \in call.out.writes :
                /\ wr.row = wr.y
                /\ wr.col \in 0 .. width - 1
                /\ Abs(wr.col - wr.x) <= bound
            /\ Height(call.out.left) = height /\ Height(call.out.right) = height
            /\ \A y \in 0 .. height - 1 :
                /\ Len(call.out.left[y + 1]) = width
                /\ Len(call.out.right[y + 1]) = width
                /\ \A c \in 0 .. width - 1 :
                    Near(call.out.left, y, c) /\ Near(call.out.right, y, c)

\* A pixel is displaced by the full maximum disparity of 2 columns, and a
\* write of the last column is dropped at the right border.
C16_Witness ==
    /\ call.fn = "stereo_pair"
    /\ \E wr \in call.out.writes : wr.view = "left" /\ wr.x - wr.col = 2
    /\ ~ \E wr \in call.out.writes :
           wr.view = "right" /\ wr.y = 0 /\ wr.x = Width(call.frame) - 1

\* C18: the combined frame is the left view followed by the right view: for
\* side-by-side each row is the left view's row followed by the right view's
\* row (width doubled, height unchanged); for top-bottom the rows of the left
\* view are followed by the rows of the right view (height doubled, width
\* unchanged).
C18_StereoLayout ==
    call.fn = "stereo_pair" =>
        LET width == Width(call.frame)
            height == Height(call.frame)
            out == call.out.stereo
        IN  /\ call.mode = "side-by-side" =>
                /\ Height(out) = height
                /\ \A y \in 0 .. height - 1 :
                    /\ Len(out[y + 1]) = 2 * width
                    /\ \A c \in 0 .. width - 1 :
                        /\ Pixel(out, y, c) = Pixel(call.out.left, y, c)
                        /\ Pixel(out, y, width + c) = Pixel(call.out.right, y, c)
            /\ call.mode = "top-bottom" =>
                /\ Height(out) = 2 * height
                /\ \A y \in 0 .. height - 1 :
                    /\ Len(out[y + 1]) = width
                    /\ Len(out[height + y + 1]) = width
                    /\ \A c \in 0 .. width - 1 :
                        /\ Pixel(out, y, c) = Pixel(call.out.left, y, c)
                        /\ Pixel(out, height + y, c) = Pixel(call.out.right, y, c)

\* A top-bottom frame of two rows per view whose views differ.
C18_Witness ==
    /\ call.fn = "stereo_pair"
    /\ call.mode = "top-bottom"
    /\ Height(call.frame) = 2
    /\ call.out.left # call.out.right
    /\ Height(call.out.stereo) = 4

\* C17: normalisation maps the minimum of a non-constant depth map to 0 and
\* its maximum to 1 with every value in [0,1]; for a constant map it divides
\* by no zero and returns the all-zero map.
C17_NormalisedOrZero ==
    call.fn = "normalize" =>
        LET raw == call.raw
            out == call.out
            IsConstant == \A i, j \in DOMAIN raw : raw[i] = raw[j]
            IsNumber(v) == v.kind = "number" /\ v.den > 0
            Is(v, n) == IsNumber(v) /\ v.num = n * v.den
        IN  /\ DOMAIN out = DOMAIN raw
            /\ ~IsConstant =>
                 \A i \in DOMAIN raw :
                    /\ IsNumber(out[i]) /\ 0 <= out[i].num /\ out[i].num <= out[i].den
                    /\ (\A j \in DOMAIN raw : raw[i] <= raw[j]) => Is(out[i], 0)
                    /\ (\A j \in DOMAIN raw : raw[j] <= raw[i]) => Is(out[i], 1)
            /\ IsConstant => \A i \in DOMAIN raw : Is(out[i], 0)

\* The value of a string of decimal digits; -1 when it is not one.
RECURSIVE DecimalValue(_)
DecimalValue(str) ==
    IF Len(str) = 0 THEN -1
    ELSE LET last == str[Len(str)] - 48
             rest == SubSeq(str, 1, Len(str) - 1)
         IN  IF last \notin 0 .. 9 THEN -1
             ELSE IF Len(rest) = 0 THEN last
             ELSE IF DecimalValue(rest) < 0 THEN -1
             ELSE 10 * DecimalValue(rest) + last

\* The kbps value of a bitrate string "<digits>k"; -1 when it is not one.
Kbps(str) ==
    IF Len(str) < 2 \/ str[Len(str)] # 107 THEN -1
    ELSE DecimalValue(SubSeq(str, 1, Len(str) - 1))

\* (width * height) / (1920 * 1080) for the 16:9 sizes of the table, all of
\* them multiples of 160 x 90: the pixel counts in units of 160 x 90 pixels.
PixelRatio(width, height) ==
    <<(width \div 160) * (height \div 90), (1920 \div 160) * (1080 \div 90)>>

TierBase ==
    [q \in Qualities \cup {"other"} |->
        CASE q = "low" -> 1000 [] q = "high" -> 5000 [] q = "ultra" -> 10000
          [] OTHER -> 2500]

\* C19 as stated: the bitrate is base(quality) * (outputWidth * outputHeight)
\* / (1920 * 1080) rounded to the nearest integer, suffixed with k; high at
\* 1080p gives 5000k and low at 4K gives 4000k.
C19_BitrateRounded ==
    call.fn = "encode_params" =>
        /\ Kbps(call.bitrate) >= 0
        /\ call.output_width % 160 = 0 /\ call.output_height % 90 = 0
        /\ IsNearest(Kbps(call.bitrate),
                     TierBase[call.quality]
                         * PixelRatio(call.output_width, call.output_height)[1],
                     PixelRatio(call.output_width, call.output_height)[2])
        /\ call.quality = "high" /\ call.resolution = "1080p"
               => call.bitrate = <<53, 48, 48, 48, 107>>
        /\ call.quality = "low" /\ call.resolution = "4K"
               => call.bitrate = <<52, 48, 48, 48, 107>>

\* C19, amended: the bitrate is the integer part of base(quality) *
\* (outputWidth * outputHeight) / (1920 * 1080) (truncation, not rounding to
\* nearest), suffixed with k; high at 1080p gives 5000k and low at 4K gives
\* 4000k.
C19_BitrateTruncated ==
    call.fn = "encode_params" =>
        /\ Kbps(call.bitrate) >= 0
        /\ call.output_width % 160 = 0 /\ call.output_height % 90 = 0
        /\ IsTruncation(Kbps(call.bitrate),
                        TierBase[call.quality]
                            * PixelRatio(call.output_width, call.output_height)[1],
                        PixelRatio(call.output_width, call.output_height)[2])
        /\ call.quality = "high" /\ call.resolution = "1080p"
               => call.bitrate = <<53, 48, 48, 48, 107>>
        /\ call.quality = "low" /\ call.resolution = "4K"
               => call.bitrate = <<52, 48, 48, 48, 107>>

\* Quality low at 1440p: 1777.78 is cut to 1777k.
C19_Witness ==
    /\ call.fn = "encode_params"
    /\ call.quality = "low"
    /\ call.resolution = "1440p"
    /\ call.bitrate = <<49, 55, 55, 55, 107>>

\* C20: the output is scaled to the dimensions the resolution table gives
\* for settings.resolution (1920 x 1080 for an unrecognized value), whatever
\* the dimensions and the layout of the frames.
C20_OutputIsTarget ==
    call.fn = "encode_params" =>
        LET target == CASE call.resolution = "720p" -> <<1280, 720>>
                        [] call.resolution = "1440p" -> <<2560, 1440>>
                        [] call.resolution = "4K" -> <<3840, 2160>>
                        [] OTHER -> <<1920, 1080>>
        IN  /\ <<call.output_width, call.output_height>> = target
            /\ call.out_dims = target

\* Top-bottom frames of 1920 x 2160 are scaled to the 720p target, and an
\* unrecognized resolution resolves to 1080p.
C20_Witness ==
    /\ call.fn = "encode_params"
    /\ \/ /\ call.resolution = "720p"
          /\ call.in_dims = <<1920, 2160>>
          /\ call.out_dims = <<1280, 720>>
       \/ /\ call.resolution = "other"
          /\ call.in_dims = <<40, 20>>
          /\ call.out_dims = <<1920, 1080>>

\* C24: _estimate_depth never applies the preprocessing transform before
\* the model and its transform are loaded, so no run fails because the
\* transform is missing; and whenever the model is loaded, so is its
\* transform.
C24_TransformLoadedBeforeUse ==
    /\ exc.msg # "depth: no attribute _midas_transforms"
    /\ midasModel = "loaded" => midasTransforms = "loaded"

\* The errors a run without a progress callback can end with.
CallbackFreeErrors ==
    {"frame write failed", "depth: no attribute _midas_transforms",
     "depth: inference failed", "No processed frames found", "ffmpeg error"}

\* C29: a progress callback that never raises does not change the outcome of
\* process_video: a run with such a callback fails only with an error that
\* the run without a callback meets too, and a run without a callback never
\* fails in the progress computation.
C29_CallbackDoesNotChangeOutcome ==
    (pc = "done" /\ exc # NoExc /\ exc.msg # "callback raised")
        => exc.msg \in CallbackFreeErrors

\* C30: once _extract_frames has returned or raised, the capture handle it
\* opened is released.
C30_CaptureReleased ==
    pc # "extract" => ~capOpen

\* An invocation that holds a workspace.
Running(i) == inv[i].pc \notin {"idle", "done"}

\* C21: concurrent invocations own their workspaces: two running invocations
\* have distinct directories, an invocation reads, writes and encodes only
\* files inside its own directory that it wrote itself, and the teardown of
\* its directory removes no file of the other invocation.
C21_WorkspacesIndependent ==
    /\ \A i, j \in Invocations :
          (i # j /\ Running(i) /\ Running(j)) => inv[i].dir # inv[j].dir
    /\ \A i \in Invocations :
          /\ \A f \in inv[i].reads \cup inv[i].writes :
                f.dir = inv[i].dir /\ f.by = i
          /\ \A f \in inv[i].removed : f.by = i
          /\ Running(i) =>
                /\ inv[i].dir \in tmpDirs
                /\ \A f \in inv[i].writes : f \in tmpFiles

\* One invocation has removed its workspace and its files while the other
\* is in the middle of frame processing with its frames in place.
C21_Witness ==
    /\ inv[1].pc = "done"
    /\ inv[1].removed # {}
    /\ inv[2].pc = "process"
    /\ inv[2].reads # {}
    /\ Unprocessed(2) # {}

\* C23: POST /videos/ is routed to a handler that creates the video and is
\* answered with status 200.
C23_CreateVideoRouted ==
    (call.fn = "route" /\ call.method = "POST" /\ call.path = <<"videos", "">>)
        => call.out.status = 200 /\ call.out.handler # "none"

\* C26: a request to a path that is not one of the excluded paths and
\* carries no token is answered 401 by the middleware without reaching the
\* handler, and a request to such a path that reaches the handler had its
\* token verified and the user context stored.
C26_OnlyExcludedPathsSkipAuth ==
    (call.fn = "dispatch"
       /\ \A k \in DOMAIN ExcludedAuthPaths : call.path # ExcludedAuthPaths[k])
        => /\ call.token = "none" => call.out.status = 401 /\ ~call.out.reached
           /\ call.out.reached => call.out.verified /\ call.out.user_state

\* The requests that looked a record up.
LookedUp == {r \in Requests : req[r].pc # "none" /\ req[r].found}

\* C25: on every endpoint that takes a video id, a missing video is answered
\* 404 and a requester who is not the owner is answered 403, in both cases
\* without any side effect of the request; every job record, task, issued
\* URL, status change and file deletion comes from a request of the owner.
C25_OwnerCheckedBeforeEffects ==
    /\ \A r \in LookedUp :
          /\ ~req[r].info.exists =>
                req[r].pc = "done" /\ req[r].response = 404 /\ req[r].effects = {}
          /\ (req[r].info.exists /\ req[r].info.user_id # req[r].user) =>
                req[r].pc = "done" /\ req[r].response = 403 /\ req[r].effects = {}
    /\ \A j \in jobs : StoredVideos[j.video_id].user_id = j.user_id
    /\ \A t \in tasks : req[t.job_id].user = StoredVideos[t.video_id].user_id
    /\ \A u \in urls : req[u.req].user = StoredVideos[u.video].user_id
    /\ \A v \in VideoIds :
          /\ videos[v].status # StoredVideos[v].status =>
                \E r \in LookedUp : req[r].video = v /\ req[r].endpoint = "convert"
                                    /\ req[r].user = StoredVideos[v].user_id
          /\ (StoredVideos[v].exists /\ v \notin gcsFiles) =>
                \E r \in LookedUp : req[r].video = v /\ req[r].endpoint = "delete"
                                    /\ req[r].user = StoredVideos[v].user_id

\* bob's delete of alice's video was answered 403 with the files in place,
\* and a request for the unknown video was answered 404.
C25_Witness ==
    /\ req[1].pc = "done" /\ req[1].endpoint = "delete" /\ req[1].user = "bob"
    /\ req[1].video = "v1" /\ req[1].response = 403 /\ "v1" \in gcsFiles
    /\ req[2].pc = "done" /\ req[2].video = "v3" /\ req[2].response = 404

\* C27: for any interleaving of convert requests for the same video, at most
\* one of them creates a job record and enqueues a task, and every other one
\* is answered 400 (or 500, when a call of a service raised).
C27_SingleConversion ==
    /\ \A v \in VideoIds :
          /\ Cardinality({j \in jobs : j.video_id = v}) <= 1
          /\ Cardinality({t \in tasks : t.video_id = v}) <= 1
    /\ \A r1, r2 \in LookedUp :
          (r1 # r2 /\ req[r1].endpoint = "convert" /\ req[r2].endpoint = "convert"
             /\ req[r1].video = req[r2].video /\ "job" \in req[r1].effects
             /\ req[r2].pc = "done" /\ req[r2].info.exists
             /\ req[r2].info.user_id = req[r2].user)
            => req[r2].response \in {400, 500}

\* C28: a convert request that has ended without success has left the
\* video's status and the job records as they were, and once every request
\* has ended a queued video has a job record and an enqueued task.
C28_FailedConvertLeavesNoTrace ==
    /\ \A r \in Requests :
          (req[r].pc = "done" /\ req[r].endpoint = "convert" /\ req[r].response # 200)
            => /\ ~ \E j \in jobs : j.job_id = r
               /\ "status" \notin req[r].effects
    /\ (\A r \in Requests : req[r].pc \in {"none", "done"}) =>
          \A v \in VideoIds :
             videos[v].status = "queued" =>
                /\ \E j \in jobs : j.video_id = v
                /\ \E t \in tasks : t.video_id = v

\* C10: after process_video returned success, the file named by the
\* result's thumbnail_path exists.
C10_ThumbnailExistsOnSuccess ==
    (result.returned /\ result.success) => result.thumbnail_path \in files

====
